---- MODULE Spec2Model ----
(***************************************************************************)
(* Model of camera_server/camera_stream_api.py: the process-wide camera    *)
(* references (CAMERA_SOURCE, opencv_camera, libcamera_camera), the two    *)
(* initialisers, startup/shutdown hooks, the HTTP handlers and the         *)
(* gen_frames generator.                                                   *)
(*                                                                         *)
(* Strings that the code lower-cases are tuples of one-character strings,  *)
(* so that str.lower() is computed character by character.  Camera objects *)
(* live in a heap (a sequence of records); a reference is an index into    *)
(* the heap and None is 0.                                                 *)
(***************************************************************************)
EXTENDS Integers, Sequences, FiniteSets, TLC

VARIABLES CAMERA_SOURCE, opencv_camera, libcamera_camera, heap,
          picamera2_available, started, gen, last, pre, sw

vars == <<CAMERA_SOURCE, opencv_camera, libcamera_camera, heap,
          picamera2_available, started, gen, last, pre, sw>>

\* ---------------------------------------------------------------- bounds
\* number of camera objects constructed during one run
MaxHandles == 4
\* number of get_frame calls one generator makes
MaxCalls == 3

\* --------------------------------------------------------------- strings
OPENCV == <<"o", "p", "e", "n", "c", "v">>
LIBCAMERA == <<"l", "i", "b", "c", "a", "m", "e", "r", "a">>
OPENCV_MIXED == <<"O", "p", "e", "n", "C", "V">>
LIBCAMERA_UPPER == <<"L", "I", "B", "C", "A", "M", "E", "R", "A">>
INVALID == <<"i", "n", "v", "a", "l", "i", "d">>
EMPTY == <<>>

UpperLetters == <<"A", "B", "C", "D", "E", "F", "G", "H", "I", "J", "K", "L", "M",
                  "N", "O", "P", "Q", "R", "S", "T", "U", "V", "W", "X", "Y", "Z">>
LowerLetters == <<"a", "b", "c", "d", "e", "f", "g", "h", "i", "j", "k", "l", "m",
                  "n", "o", "p", "q", "r", "s", "t", "u", "v", "w", "x", "y", "z">>

\* the lower-case form of every upper-case letter
LowerTable == [c \in {UpperLetters[i] : i \in DOMAIN UpperLetters} |->
                 LowerLetters[CHOOSE i \in DOMAIN UpperLetters : UpperLetters[i] = c]]

LowerChar(c) == IF c \in DOMAIN LowerTable THEN LowerTable[c] ELSE c

\* str.lower()
Lower(s) == [i \in DOMAIN s |-> LowerChar(s[i])]

\* values the CAMERA_SOURCE environment variable is given
ConfigSources == {OPENCV, LIBCAMERA, LIBCAMERA_UPPER}
\* values of the ?source= query parameter
QuerySources == {OPENCV, OPENCV_MIXED, LIBCAMERA, INVALID, EMPTY}

\* ------------------------------------------------------------------ heap
None == 0

Ev(e, h) == [ev |-> e, h |-> h]

\* cv2.VideoCapture.isOpened()
isOpened(hp, h) == hp[h].st = "opened"

\* cv2.VideoCapture.release(): the object stays, the device is released
release(hp, h) == [hp EXCEPT ![h].st = "released"]

\* Picamera2.close()
close(hp, h) == [hp EXCEPT ![h].st = "closed"]

\* a camera object that holds a running device
Live(hp, h) == hp[h].st \in {"opened", "started"}

\* outcomes of cv2.VideoCapture(OPENCV_DEVICE) followed by isOpened()
CvOutcomes == {"opened", "notopened", "raise"}

\* outcomes of the picamera2 sequence import / load_tuning_file+Picamera2() /
\* configure+start; the import fails exactly when the library is missing
LibOutcomes(avail) ==
    IF avail THEN {"ok", "tuning_error", "configure_error"} ELSE {"import_error"}

\* The machine record threaded through one handler: the two references, the
\* heap, the device calls made so far, and the last initialiser's return.
Machine(oc, lc, hp) == [oc |-> oc, lc |-> lc, heap |-> hp, log |-> <<>>, ok |-> FALSE]

init_opencv_camera(m, out) ==
    IF out = "raise"
    THEN [m EXCEPT !.log = Append(@, Ev("VideoCapture", None)), !.ok = FALSE]
    ELSE LET h == Len(m.heap) + 1
             hp == Append(m.heap, [kind |-> "cv",
                                   st |-> IF out = "opened" THEN "opened" ELSE "notopened"])
         IN [m EXCEPT !.heap = hp, !.oc = h,
                      !.log = Append(@, Ev("VideoCapture", h)),
                      !.ok = isOpened(hp, h)]

init_libcamera(m, out) ==
    IF out \in {"import_error", "tuning_error"}
    THEN [m EXCEPT !.log = Append(@, Ev("Picamera2", None)), !.ok = FALSE]
    ELSE LET h == Len(m.heap) + 1
             hp == Append(m.heap, [kind |-> "pi",
                                   st |-> IF out = "ok" THEN "started" ELSE "acquired"])
         IN [m EXCEPT !.heap = hp, !.lc = h,
                      !.log = Append(@, Ev("Picamera2", h)),
                      !.ok = (out = "ok")]


\* --------------------------------------------------------------- frames
NoFrame == [h |-> None, order |-> "none"]

\* outcomes of one device read: a frame, an empty result, a fault
ReadOutcomes == {"ok", "empty", "fault"}

\* cv2.cvtColor(frame, cv2.COLOR_RGB2BGR)
cvtColor(f) == [f EXCEPT !.order = IF @ = "RGB" THEN "BGR" ELSE "RGB"]

\* a read that delivers a frame whatever the capture's state
get_frame_opencv_any(oc, hp, out) ==
    IF oc = None
    THEN [frame |-> NoFrame, log |-> <<>>]
    ELSE [frame |-> IF out = "ok" THEN [h |-> oc, order |-> "BGR"] ELSE NoFrame,
          log |-> <<Ev("read", oc)>>]

\* returns the frame (NoFrame for None) and the device calls made
get_frame_opencv(oc, hp, out) ==
    IF oc = None
    THEN [frame |-> NoFrame, log |-> <<>>]
    ELSE LET success == isOpened(hp, oc) /\ out = "ok"
         IN [frame |-> IF success THEN [h |-> oc, order |-> "BGR"] ELSE NoFrame,
             log |-> <<Ev("read", oc)>>]

get_frame_libcamera(lc, hp, out) ==
    IF lc = None
    THEN [frame |-> NoFrame, log |-> <<>>]
    ELSE LET captured == hp[lc].st = "started" /\ out = "ok"
         IN [frame |-> IF captured THEN cvtColor([h |-> lc, order |-> "RGB"]) ELSE NoFrame,
             log |-> <<Ev("capture_array", lc)>>]

\* a dispatch that never follows the label
get_frame_unswitched(src, oc, lc, hp, out) == get_frame_opencv(oc, hp, out)

get_frame(src, oc, lc, hp, out) ==
    IF Lower(src) = LIBCAMERA
    THEN get_frame_libcamera(lc, hp, out)
    ELSE get_frame_opencv(oc, hp, out)

\* outcomes of cv2.imencode: (True, buffer), (False, _), an exception
EncodeOutcomes == {"ok", "false", "raise"}

JPEG_QUALITY == 80

\* buffer.tobytes() of a successful cv2.imencode('.jpg', frame, [quality])
imencode(f) == <<"SOI", "q", JPEG_QUALITY, "h", f.h, f.order, "EOI">>

CRLF == <<"\r", "\n">>

\* the part without the CRLF that ends it
Chunk_NoTrailer(frame_bytes) ==
    <<"-", "-", "f", "r", "a", "m", "e">> \o CRLF
    \o <<"Content-Type: image/jpeg">> \o CRLF \o CRLF
    \o frame_bytes

\* the multipart part gen_frames yields for frame_bytes
Chunk(frame_bytes) ==
    <<"-", "-", "f", "r", "a", "m", "e">> \o CRLF
    \o <<"Content-Type: image/jpeg">> \o CRLF \o CRLF
    \o frame_bytes \o CRLF

\* ------------------------------------------------------------- handlers
\* a startup that falls back in both directions
startup_event_two_way(m, src, lo, co) ==
    IF Lower(src) = LIBCAMERA
    THEN LET a == init_libcamera(m, lo)
         IN IF ~a.ok THEN init_opencv_camera(a, co) ELSE a
    ELSE LET a == init_opencv_camera(m, co)
         IN IF ~a.ok THEN init_libcamera(a, lo) ELSE a

startup_event(m, src, lo, co) ==
    IF Lower(src) = LIBCAMERA
    THEN LET a == init_libcamera(m, lo)
         IN IF ~a.ok THEN init_opencv_camera(a, co) ELSE a
    ELSE init_opencv_camera(m, co)

\* "if opencv_camera is not None: opencv_camera.release()"
shutdown_release(m) ==
    IF m.oc # None
    THEN [m EXCEPT !.heap = release(@, m.oc), !.log = Append(@, Ev("release", m.oc))]
    ELSE m

\* "if libcamera_camera is not None: libcamera_camera.close()"
shutdown_close(m) ==
    IF m.lc # None
    THEN [m EXCEPT !.heap = close(@, m.lc), !.log = Append(@, Ev("close", m.lc))]
    ELSE m

shutdown_event(m) == shutdown_close(shutdown_release(m))

\* "status" of GET /
index_status(oc, lc, hp) ==
    IF (oc # None /\ isOpened(hp, oc)) \/ lc # None THEN "healthy" ELSE "unhealthy"

index(src, oc, lc, hp) ==
    [camera_source |-> src,
     opencv_device |-> Lower(src) = OPENCV,
     libcamera_device |-> Lower(src) = LIBCAMERA,
     status |-> index_status(oc, lc, hp)]

camera_working(src, oc, lc, hp) ==
    IF Lower(src) = OPENCV THEN oc # None /\ isOpened(hp, oc)
    ELSE IF Lower(src) = LIBCAMERA THEN lc # None
    ELSE FALSE

health_check(src, oc, lc, hp) ==
    [status |-> IF camera_working(src, oc, lc, hp) THEN "healthy" ELSE "unhealthy",
     camera_source |-> src,
     camera_working |-> camera_working(src, oc, lc, hp)]

camera_info(src, oc, lc, hp) ==
    [camera_source |-> src,
     opencv_available |-> oc # None /\ isOpened(hp, oc),
     libcamera_available |-> lc # None]

\* the validation left out: every source is taken as a kind
ValidSource_NoCheck(source) == TRUE

\* the validation at the top of switch_camera
ValidSource(source) == Lower(source) \in {OPENCV, LIBCAMERA}

\* the clean-up left out: the current camera is not closed
switch_cleanup_none(m, src) == m

\* "Clean up current camera"
switch_cleanup(m, src) ==
    IF Lower(src) = OPENCV /\ m.oc # None
    THEN [m EXCEPT !.heap = release(@, m.oc), !.log = Append(@, Ev("release", m.oc))]
    ELSE IF Lower(src) = LIBCAMERA /\ m.lc # None
    THEN [m EXCEPT !.heap = close(@, m.lc), !.log = Append(@, Ev("close", m.lc))]
    ELSE m

\* a switch that restores the previous label when the open fails
switch_camera_rollback(m, src, source, out) ==
    IF ~ValidSource(source)
    THEN [src |-> src, m |-> m, ret |-> [error |-> TRUE]]
    ELSE LET a == switch_cleanup(m, src)
             new == Lower(source)
             b == IF new = LIBCAMERA THEN init_libcamera(a, out) ELSE init_opencv_camera(a, out)
             lbl == IF b.ok THEN new ELSE src
         IN [src |-> lbl, m |-> b,
             ret |-> [error |-> FALSE, success |-> b.ok, camera_source |-> lbl]]

\* returns the new CAMERA_SOURCE, the machine and the response
switch_camera(m, src, source, out) ==
    IF ~ValidSource(source)
    THEN [src |-> src, m |-> m, ret |-> [error |-> TRUE]]
    ELSE LET a == switch_cleanup(m, src)
             new == Lower(source)
             b == IF new = LIBCAMERA THEN init_libcamera(a, out) ELSE init_opencv_camera(a, out)
         IN [src |-> new, m |-> b,
             ret |-> [error |-> FALSE, success |-> b.ok, camera_source |-> new]]

test_frame(src, oc, lc, hp, ro, eo) ==
    LET g == get_frame(src, oc, lc, hp, ro)
    IN [log |-> g.log,
        ret |-> IF g.frame = NoFrame THEN [success |-> FALSE, content |-> <<>>]
                ELSE IF eo # "ok" THEN [success |-> FALSE, content |-> <<>>]
                ELSE [success |-> TRUE, content |-> imencode(g.frame)]]


\* ------------------------------------------------------------ gen_frames
\* One generator object: where its body stands, the frame held, the chunk at
\* the yield, the device calls of its latest get_frame, and counts of
\* get_frame calls, chunks yielded and backoff sleeps since it was created.
\* wins and fails count what the cameras and the encoder did to it: the
\* iterations whose retrieval and encode both succeeded, and the retrievals
\* or encodes that failed.
GenInit == [pc |-> "none", frame |-> NoFrame, chunk |-> <<>>, log |-> <<>>,
            calls |-> 0, yields |-> 0, backoffs |-> 0, wins |-> 0, fails |-> 0]

\* frame = get_frame(): the call and both outcomes of "if frame is None"
gen_get_frame(g, r) ==
    IF r.frame = NoFrame
    THEN [g EXCEPT !.pc = "sleep", !.frame = NoFrame, !.chunk = <<>>,
                   !.log = r.log, !.calls = @ + 1]
    ELSE [g EXCEPT !.pc = "encode", !.frame = r.frame, !.chunk = <<>>,
                   !.log = r.log, !.calls = @ + 1]

\* the try block: imencode, "if not ret", tobytes, yield, except
gen_encode(g, eo) ==
    IF eo = "ok"
    THEN [g EXCEPT !.pc = "yield", !.chunk = Chunk(imencode(g.frame)), !.yields = @ + 1]
    ELSE [g EXCEPT !.pc = "sleep"]

\* a retry cap: the loop is left after the second backoff
gen_sleep_capped(g) ==
    IF g.backoffs >= 1
    THEN [g EXCEPT !.pc = "stopped", !.backoffs = @ + 1]
    ELSE [g EXCEPT !.pc = "loop", !.backoffs = @ + 1]

\* time.sleep(0.1); continue
gen_sleep(g) == [g EXCEPT !.pc = "loop", !.backoffs = @ + 1]

\* the consumer asks for the next chunk: the body goes round the while loop
gen_resume(g) == [g EXCEPT !.pc = "loop"]

\* -------------------------------------------------------- state machine
\* The lifecycle call that is under way when handlers run on several threads:
\* where it stands, its source, the camera objects it has closed and the
\* device calls it has made so far.  Idle whenever calls run one at a time.
SwIdle == [pc |-> "idle", source |-> <<>>, closed |-> {}, log |-> <<>>]

\* What a handler found when it was called, and the call before it.
Snapshot == [src |-> CAMERA_SOURCE, oc |-> opencv_camera, lc |-> libcamera_camera,
             heap |-> heap,
             last |-> [op |-> last.op, arg |-> last.arg, ok |-> last.ok],
             sw |-> sw]

Init ==
    /\ CAMERA_SOURCE \in ConfigSources
    /\ opencv_camera = None
    /\ libcamera_camera = None
    /\ heap = <<>>
    /\ picamera2_available \in BOOLEAN
    /\ started = FALSE
    /\ gen = GenInit
    /\ last = [op |-> "load", arg |-> <<>>, ok |-> TRUE, ret |-> [error |-> FALSE], log |-> <<>>]
    /\ pre = [src |-> CAMERA_SOURCE, oc |-> None, lc |-> None, heap |-> <<>>,
              last |-> [op |-> "load", arg |-> <<>>, ok |-> TRUE], sw |-> SwIdle]
    /\ sw = SwIdle

\* rec: the call is recorded in last and pre (the stream specification leaves
\* them alone and watches the generator instead)
Called(rec, op, arg, ok, ret, log) ==
    IF rec
    THEN /\ last' = [op |-> op, arg |-> arg, ok |-> ok, ret |-> ret, log |-> log]
         /\ pre' = Snapshot
    ELSE UNCHANGED <<last, pre>>

Store(m) ==
    /\ Len(m.heap) <= MaxHandles
    /\ opencv_camera' = m.oc
    /\ libcamera_camera' = m.lc
    /\ heap' = m.heap

\* the outcomes the initialiser that switch_camera(source) calls can have
SwitchOutcomes(source) ==
    IF ~ValidSource(source) THEN {"none"}
    ELSE IF Lower(source) = LIBCAMERA THEN LibOutcomes(picamera2_available)
    ELSE CvOutcomes

DoStartup(rec) ==
    /\ ~started
    /\ \E lo \in LibOutcomes(picamera2_available), co \in CvOutcomes :
         LET m == startup_event(Machine(opencv_camera, libcamera_camera, heap),
                                CAMERA_SOURCE, lo, co)
         IN /\ Store(m)
            /\ Called(rec, "startup_event", <<>>, TRUE, [error |-> FALSE], m.log)
    /\ started' = TRUE
    /\ UNCHANGED <<CAMERA_SOURCE, picamera2_available, gen, sw>>

DoShutdown(rec) ==
    /\ started
    /\ LET m == shutdown_event(Machine(opencv_camera, libcamera_camera, heap))
       IN /\ Store(m)
          /\ Called(rec, "shutdown_event", <<>>, TRUE, [error |-> FALSE], m.log)
    /\ UNCHANGED <<CAMERA_SOURCE, picamera2_available, started, gen, sw>>

DoSwitchCamera(rec) ==
    /\ started
    /\ \E source \in QuerySources :
         \E out \in SwitchOutcomes(source) :
           LET r == switch_camera(Machine(opencv_camera, libcamera_camera, heap),
                                  CAMERA_SOURCE, source, out)
           IN /\ Store(r.m)
              /\ CAMERA_SOURCE' = r.src
              /\ Called(rec, "switch_camera", source, ~r.ret.error /\ r.m.ok, r.ret, r.m.log)
    /\ UNCHANGED <<picamera2_available, started, gen, sw>>

Startup == DoStartup(TRUE)

Shutdown == DoShutdown(TRUE)

SwitchCamera == DoSwitchCamera(TRUE)

HealthCheck ==
    /\ started
    /\ Called(TRUE, "health_check", <<>>, TRUE,
              health_check(CAMERA_SOURCE, opencv_camera, libcamera_camera, heap), <<>>)
    /\ UNCHANGED <<CAMERA_SOURCE, opencv_camera, libcamera_camera, heap,
                   picamera2_available, started, gen, sw>>

Index ==
    /\ started
    /\ Called(TRUE, "index", <<>>, TRUE,
              index(CAMERA_SOURCE, opencv_camera, libcamera_camera, heap), <<>>)
    /\ UNCHANGED <<CAMERA_SOURCE, opencv_camera, libcamera_camera, heap,
                   picamera2_available, started, gen, sw>>

CameraInfo ==
    /\ started
    /\ Called(TRUE, "camera_info", <<>>, TRUE,
              camera_info(CAMERA_SOURCE, opencv_camera, libcamera_camera, heap), <<>>)
    /\ UNCHANGED <<CAMERA_SOURCE, opencv_camera, libcamera_camera, heap,
                   picamera2_available, started, gen, sw>>

\* a test_frame that releases the capture it has read from
TestFrame_Releasing ==
    /\ started
    /\ \E ro \in ReadOutcomes, eo \in EncodeOutcomes :
         LET r == test_frame(CAMERA_SOURCE, opencv_camera, libcamera_camera, heap, ro, eo)
         IN Called(TRUE, "test_frame", <<>>, r.ret.success, r.ret, r.log)
    /\ heap' = IF opencv_camera # None THEN release(heap, opencv_camera) ELSE heap
    /\ UNCHANGED <<CAMERA_SOURCE, opencv_camera, libcamera_camera,
                   picamera2_available, started, gen, sw>>

TestFrame ==
    /\ started
    /\ \E ro \in ReadOutcomes, eo \in EncodeOutcomes :
         LET r == test_frame(CAMERA_SOURCE, opencv_camera, libcamera_camera, heap, ro, eo)
         IN Called(TRUE, "test_frame", <<>>, r.ret.success, r.ret, r.log)
    /\ UNCHANGED <<CAMERA_SOURCE, opencv_camera, libcamera_camera, heap,
                   picamera2_available, started, gen, sw>>

\* GET /video_feed: the generator object is created and handed to the response
VideoFeed ==
    /\ started
    /\ gen.pc = "none"
    /\ gen' = [GenInit EXCEPT !.pc = "loop"]
    /\ UNCHANGED <<CAMERA_SOURCE, opencv_camera, libcamera_camera, heap,
                   picamera2_available, started, last, pre, sw>>

\* ros: the outcomes the device read can have
DoGenGetFrame(ros) ==
    /\ gen.pc = "loop"
    /\ gen.calls < MaxCalls
    /\ \E ro \in ros :
         LET r == get_frame(CAMERA_SOURCE, opencv_camera, libcamera_camera, heap, ro)
         IN gen' = [gen_get_frame(gen, r) EXCEPT
                      !.fails = IF r.frame = NoFrame THEN @ + 1 ELSE @]
    /\ UNCHANGED <<CAMERA_SOURCE, opencv_camera, libcamera_camera, heap,
                   picamera2_available, started, last, pre, sw>>

GenGetFrame == DoGenGetFrame(ReadOutcomes)

\* eos: the outcomes the encoder can have
DoGenEncode(eos) ==
    /\ gen.pc = "encode"
    /\ \E eo \in eos :
         gen' = [gen_encode(gen, eo) EXCEPT
                   !.wins = IF eo = "ok" THEN @ + 1 ELSE @,
                   !.fails = IF eo = "ok" THEN @ ELSE @ + 1]
    /\ UNCHANGED <<CAMERA_SOURCE, opencv_camera, libcamera_camera, heap,
                   picamera2_available, started, last, pre, sw>>

GenEncode == DoGenEncode(EncodeOutcomes)

GenSleep ==
    /\ gen.pc = "sleep"
    /\ gen' = gen_sleep(gen)
    /\ UNCHANGED <<CAMERA_SOURCE, opencv_camera, libcamera_camera, heap,
                   picamera2_available, started, last, pre, sw>>

GenResume ==
    /\ gen.pc = "yield"
    /\ gen' = gen_resume(gen)
    /\ UNCHANGED <<CAMERA_SOURCE, opencv_camera, libcamera_camera, heap,
                   picamera2_available, started, last, pre, sw>>

\* the client disconnects: the transport abandons the generator at its yield
GenClose ==
    /\ gen.pc = "yield"
    /\ gen' = GenInit
    /\ UNCHANGED <<CAMERA_SOURCE, opencv_camera, libcamera_camera, heap,
                   picamera2_available, started, last, pre, sw>>

\* the lifecycle hooks and the request handlers, one call at a time
Next ==
    \/ Startup
    \/ Shutdown
    \/ SwitchCamera
    \/ HealthCheck
    \/ Index
    \/ CameraInfo
    \/ TestFrame

Spec == Init /\ [][Next]_vars

StreamStartup == DoStartup(FALSE)

StreamShutdown == DoShutdown(FALSE)

StreamSwitchCamera == DoSwitchCamera(FALSE)

\* one /video_feed stream running while the camera is started, switched and
\* shut down
NextStream ==
    \/ StreamStartup
    \/ StreamShutdown
    \/ StreamSwitchCamera
    \/ VideoFeed
    \/ GenGetFrame
    \/ GenEncode
    \/ GenSleep
    \/ GenResume
    \/ GenClose

SpecStream == Init /\ [][NextStream]_vars


\* ---------------------------------------------------------------- claims
\* the camera references as they are now, in the shape of a Snapshot
Cur == [src |-> CAMERA_SOURCE, oc |-> opencv_camera, lc |-> libcamera_camera,
        heap |-> heap]

Core(c) == [src |-> c.src, oc |-> c.oc, lc |-> c.lc, heap |-> c.heap]

\* the direct-device reference holds an opened capture
OpenCv(c) == c.oc # None /\ c.heap[c.oc].st = "opened"

\* the tuned-sensor reference holds a started camera
OpenPi(c) == c.lc # None /\ c.heap[c.lc].st = "started"

\* the camera objects of a kind that hold a running device
LiveOf(hp, kind) == {h \in DOMAIN hp : hp[h].kind = kind /\ Live(hp, h)}

IsKind(s) == Lower(s) = OPENCV \/ Lower(s) = LIBCAMERA

Healthy(c) == health_check(c.src, c.oc, c.lc, c.heap).camera_working

\* C1: a switch_camera call whose source is neither 'opencv' nor 'libcamera'
\* in any letter case returns the error result, makes no device call and
\* leaves CAMERA_SOURCE, both references and every camera object as they were.
C1_InvalidSwitchNoEffect ==
    (last.op = "switch_camera" /\ ~IsKind(last.arg)) =>
        /\ last.ret = [error |-> TRUE]
        /\ last.log = <<>>
        /\ Cur = Core(pre)

C1_Witness ==
    /\ last.op = "switch_camera"
    /\ ~IsKind(last.arg)
    /\ OpenCv(pre)

\* C2 (as claimed): when startup_event finishes, the state is Active(configured
\* kind), Active(direct-device) by fallback, or Uninitialized with no handle
\* recorded, and no camera object whose open failed is left in a reference.
C2_StartupNeverPartial ==
    last.op = "startup_event" =>
        /\ \/ /\ Lower(pre.src) = OPENCV /\ OpenCv(Cur) /\ libcamera_camera = None
           \/ /\ Lower(pre.src) = LIBCAMERA /\ OpenPi(Cur) /\ opencv_camera = None
           \/ /\ Lower(pre.src) = LIBCAMERA /\ OpenCv(Cur)
           \/ /\ opencv_camera = None /\ libcamera_camera = None
        /\ opencv_camera # None => heap[opencv_camera].st = "opened"
        /\ libcamera_camera # None => heap[libcamera_camera].st = "started"

\* C3 (as claimed): configured tuned-sensor, library unavailable, direct-device
\* open succeeds: after startup_event /health reports camera_working true.
C3_FallbackHealthy ==
    (/\ last.op = "startup_event"
     /\ Lower(pre.src) = LIBCAMERA
     /\ ~picamera2_available
     /\ OpenCv(Cur)) =>
        /\ Healthy(Cur)
        /\ health_check(CAMERA_SOURCE, opencv_camera, libcamera_camera, heap).status
             = "healthy"

\* C4 (as claimed): whenever a reference holds a running camera, get_frame
\* (here called by test_frame) reads exactly one handle and that handle is
\* a running one.
C4_ReadsActiveHandle ==
    (last.op = "test_frame" /\ (OpenCv(Cur) \/ OpenPi(Cur))) =>
        /\ Len(last.log) = 1
        /\ Live(heap, last.log[1].h)

\* C5 (as claimed): after a switch_camera call with a valid kind whose open
\* fails, the handle that was active is closed, no camera object is running,
\* and /health reports unhealthy.
C5_FailedSwitchEmpty ==
    (last.op = "switch_camera" /\ IsKind(last.arg) /\ ~last.ret.success) =>
        /\ pre.oc # None => ~Live(heap, pre.oc)
        /\ pre.lc # None => ~Live(heap, pre.lc)
        /\ ~OpenCv(Cur) /\ ~OpenPi(Cur)
        /\ ~Healthy(Cur)

\* C6 (as claimed): a switch_camera call with a valid kind closes every handle
\* that was running before it opens the requested kind; when the open succeeds
\* only the requested kind is running and the response names it with success.
C6_SwitchClosesThenOpens ==
    (last.op = "switch_camera" /\ IsKind(last.arg)) =>
        /\ \A h \in DOMAIN pre.heap :
             (h \in {pre.oc, pre.lc} /\ Live(pre.heap, h)) =>
                 \E i \in DOMAIN last.log :
                     /\ last.log[i] \in {Ev("release", h), Ev("close", h)}
                     /\ \A j \in 1..i : last.log[j].ev \notin {"VideoCapture", "Picamera2"}
        /\ last.ret.success =>
             /\ last.ret.camera_source = Lower(last.arg)
             /\ CAMERA_SOURCE = Lower(last.arg)
             /\ IF Lower(last.arg) = OPENCV
                THEN OpenCv(Cur) /\ ~OpenPi(Cur)
                ELSE OpenPi(Cur) /\ ~OpenCv(Cur)

\* C7: two consecutive switch_camera calls with the same valid kind, both
\* successful, leave the same label, the same /health answer and as many
\* running camera objects of each kind after the second as after the first;
\* the second call first closes the handle the first call opened and then
\* opens a new one.
C7_SwitchTwiceSameState ==
    (/\ last.op = "switch_camera" /\ last.ok
     /\ pre.last.op = "switch_camera" /\ pre.last.ok
     /\ Lower(last.arg) = Lower(pre.last.arg)) =>
        /\ CAMERA_SOURCE = pre.src
        /\ health_check(CAMERA_SOURCE, opencv_camera, libcamera_camera, heap)
             = health_check(pre.src, pre.oc, pre.lc, pre.heap)
        /\ OpenCv(Cur) = OpenCv(pre)
        /\ OpenPi(Cur) = OpenPi(pre)
        /\ Cardinality(LiveOf(heap, "cv")) = Cardinality(LiveOf(pre.heap, "cv"))
        /\ Cardinality(LiveOf(heap, "pi")) = Cardinality(LiveOf(pre.heap, "pi"))
        /\ Len(last.log) = 2
        /\ IF Lower(last.arg) = OPENCV
           THEN /\ Live(pre.heap, pre.oc)
                /\ last.log = <<Ev("release", pre.oc), Ev("VideoCapture", opencv_camera)>>
                /\ opencv_camera # pre.oc
                /\ ~Live(heap, pre.oc)
           ELSE /\ Live(pre.heap, pre.lc)
                /\ last.log = <<Ev("close", pre.lc), Ev("Picamera2", libcamera_camera)>>
                /\ libcamera_camera # pre.lc
                /\ ~Live(heap, pre.lc)

C7_Witness ==
    /\ last.op = "switch_camera" /\ last.ok
    /\ pre.last.op = "switch_camera" /\ pre.last.ok
    /\ Lower(last.arg) = LIBCAMERA
    /\ Lower(pre.last.arg) = LIBCAMERA
    /\ OpenPi(Cur)

\* C8 (as claimed): after shutdown_event no camera object is running, the
\* references are cleared and /health reports unhealthy; a second
\* shutdown_event right after the first makes no device call.
C8_ShutdownClears ==
    last.op = "shutdown_event" =>
        /\ ~OpenCv(Cur) /\ ~OpenPi(Cur)
        /\ opencv_camera = None /\ libcamera_camera = None
        /\ ~Healthy(Cur)
        /\ pre.last.op = "shutdown_event" => (last.log = <<>> /\ Cur = Core(pre))


\* C9: a generator none of whose iterations got both a frame and an encoded
\* buffer has yielded nothing and holds no chunk, is still inside its loop
\* (retrieving, encoding or sleeping, never stopped or raised), and has slept
\* once after every failed iteration before the next get_frame call.
C9_AllFailNoChunk ==
    (gen.pc # "none" /\ gen.wins = 0) =>
        /\ gen.yields = 0
        /\ gen.chunk = <<>>
        /\ gen.pc \in {"loop", "sleep", "encode"}
        /\ gen.fails = IF gen.pc = "sleep" THEN gen.backoffs + 1 ELSE gen.backoffs
        /\ gen.calls = IF gen.pc = "loop" THEN gen.backoffs ELSE gen.backoffs + 1

C9_Witness ==
    /\ gen.wins = 0
    /\ gen.pc = "loop"
    /\ gen.fails >= 2
    /\ gen.backoffs >= 2
    /\ gen.frame # NoFrame

\* C10: a generator none of whose retrievals or encodes failed has never
\* slept and has yielded one chunk per get_frame call; the chunk at its yield
\* is '--frame' CRLF 'Content-Type: image/jpeg' CRLF CRLF, the nonempty bytes
\* encoded from the frame its latest get_frame read, CRLF.
C10_AllSucceedOneChunkPerCall ==
    (gen.pc # "none" /\ gen.fails = 0) =>
        /\ gen.backoffs = 0
        /\ gen.pc \in {"loop", "encode", "yield"}
        /\ gen.yields = IF gen.pc = "encode" THEN gen.calls - 1 ELSE gen.calls
        /\ gen.pc = "yield" =>
             /\ gen.frame # NoFrame
             /\ Len(gen.log) = 1 /\ gen.log[1].h = gen.frame.h
             /\ Len(imencode(gen.frame)) > 0
             /\ gen.chunk = <<"-", "-", "f", "r", "a", "m", "e", "\r", "\n",
                              "Content-Type: image/jpeg", "\r", "\n", "\r", "\n">>
                            \o imencode(gen.frame) \o <<"\r", "\n">>

C10_Witness ==
    /\ gen.fails = 0
    /\ gen.pc = "yield"
    /\ gen.yields >= 2
    /\ gen.yields = gen.calls

\* C11 (as claimed): once startup has run, /health reports camera_working
\* true exactly when a reference holds a running camera; it never reports
\* healthy for a camera object that is closed or failed to open.
C11_HealthIffActive ==
    started => (Healthy(Cur) <=> (OpenCv(Cur) \/ OpenPi(Cur)))

\* ------------------------------------------- handlers on several threads
\* The sync handlers run on a thread pool with no lock around the camera
\* references: between two statements of switch_camera or shutdown_event
\* another thread's get_frame can run.
Closed(log) == {log[i].h : i \in {j \in DOMAIN log : log[j].ev \in {"release", "close"}}}

\* switch_camera up to and including "Clean up current camera"
SwBegin ==
    /\ started
    /\ sw.pc = "idle"
    /\ \E source \in QuerySources :
         /\ ValidSource(source)
         /\ LET a == switch_cleanup(Machine(opencv_camera, libcamera_camera, heap),
                                    CAMERA_SOURCE)
            IN /\ Store(a)
               /\ sw' = [pc |-> "assign", source |-> source,
                         closed |-> Closed(a.log), log |-> a.log]
    /\ UNCHANGED <<CAMERA_SOURCE, picamera2_available, started, gen, last, pre>>

\* CAMERA_SOURCE = source.lower()
SwAssign ==
    /\ sw.pc = "assign"
    /\ CAMERA_SOURCE' = Lower(sw.source)
    /\ sw' = [sw EXCEPT !.pc = "init"]
    /\ UNCHANGED <<opencv_camera, libcamera_camera, heap, picamera2_available,
                   started, gen, last, pre>>

\* the initialiser and the return
SwInit ==
    /\ sw.pc = "init"
    /\ \E out \in SwitchOutcomes(sw.source) :
         LET a == [Machine(opencv_camera, libcamera_camera, heap) EXCEPT !.log = sw.log]
             b == IF CAMERA_SOURCE = LIBCAMERA
                  THEN init_libcamera(a, out) ELSE init_opencv_camera(a, out)
         IN /\ Store(b)
            /\ Called(TRUE, "switch_camera", sw.source, b.ok,
                      [error |-> FALSE, success |-> b.ok, camera_source |-> CAMERA_SOURCE],
                      b.log)
    /\ sw' = SwIdle
    /\ UNCHANGED <<CAMERA_SOURCE, picamera2_available, started, gen>>

\* shutdown_event up to and including opencv_camera.release()
ShutBegin ==
    /\ started
    /\ sw.pc = "idle"
    /\ LET a == shutdown_release(Machine(opencv_camera, libcamera_camera, heap))
       IN /\ Store(a)
          /\ sw' = [pc |-> "shut", source |-> <<>>, closed |-> Closed(a.log), log |-> a.log]
    /\ UNCHANGED <<CAMERA_SOURCE, picamera2_available, started, gen, last, pre>>

\* the rest of shutdown_event
ShutEnd ==
    /\ sw.pc = "shut"
    /\ LET a == [Machine(opencv_camera, libcamera_camera, heap) EXCEPT !.log = sw.log]
           b == shutdown_close(a)
       IN /\ Store(b)
          /\ Called(TRUE, "shutdown_event", <<>>, TRUE, [error |-> FALSE], b.log)
    /\ sw' = SwIdle
    /\ UNCHANGED <<CAMERA_SOURCE, picamera2_available, started, gen>>

NextConc ==
    \/ Startup
    \/ SwBegin
    \/ SwAssign
    \/ SwInit
    \/ ShutBegin
    \/ ShutEnd
    \/ TestFrame

SpecConc == Init /\ [][NextConc]_vars

\* C12 (as claimed): no get_frame (here test_frame's) reads a camera object
\* that a switch_camera or shutdown_event still under way has already closed.
C12_ReadsSerialized ==
    (last.op = "test_frame" /\ pre.sw.pc # "idle") =>
        \A i \in DOMAIN last.log : last.log[i].h \notin pre.sw.closed

\* a camera object whose open failed: a VideoCapture that never reported
\* opened, a Picamera2 that was constructed but never started
FailedOpen(hp, h) == h # None /\ hp[h].st \in {"notopened", "acquired"}

\* C13 (as claimed): a camera object whose open failed is never recorded in
\* opencv_camera or libcamera_camera, and test_frame's get_frame never calls
\* read or capture_array on one.
C13_FailedHandleNeverUsed ==
    /\ ~FailedOpen(heap, opencv_camera)
    /\ ~FailedOpen(heap, libcamera_camera)
    /\ last.op = "test_frame" =>
         \A i \in DOMAIN last.log : ~FailedOpen(heap, last.log[i].h)

\* C14 (as claimed): of each kind, at most one camera object holds a running
\* device at any time.
C14_OneLivePerKind ==
    \A kind \in {"cv", "pi"} : Cardinality(LiveOf(heap, kind)) <= 1

C16_NoBackendNoFrame ==
    (last.op = "test_frame" /\ ~OpenCv(Cur) /\ ~OpenPi(Cur)) =>
        last.ret = [success |-> FALSE, content |-> <<>>]

\* a released VideoCapture is still referenced and read() is called on it
C16_Witness ==
    /\ last.op = "test_frame"
    /\ ~OpenCv(Cur) /\ ~OpenPi(Cur)
    /\ \E i \in DOMAIN last.log : last.log[i].ev = "read"
    /\ pre.last.op \in {"switch_camera", "shutdown_event"}

\* the request handlers that only read, next to one running stream, from
\* every outcome of startup and after shutdown
NextReaders ==
    \/ StreamStartup
    \/ StreamShutdown
    \/ HealthCheck
    \/ Index
    \/ CameraInfo
    \/ TestFrame
    \/ VideoFeed
    \/ GenGetFrame
    \/ GenEncode
    \/ GenSleep
    \/ GenResume
    \/ GenClose

SpecReaders == Init /\ [][NextReaders]_vars

\* C17: every step of index, health_check, camera_info, test_frame (and the
\* get_frame it calls) and every step of a gen_frames generator leaves
\* CAMERA_SOURCE, both references and every camera object's state unchanged.
\* Under SpecReaders only the four handlers write last and pre and only the
\* stream writes gen.
C17_ReadersLeaveReference ==
    [][(gen' # gen \/ <<last, pre>>' # <<last, pre>>) =>
           UNCHANGED <<CAMERA_SOURCE, opencv_camera, libcamera_camera, heap>>]_vars

\* the four handlers again, in every state that startup, switch_camera and
\* shutdown_event reach when called one at a time
C17_HandlersLeaveReference ==
    last.op \in {"index", "health_check", "camera_info", "test_frame"} =>
        Cur = Core(pre)

\* a failed test_frame and a generator that has both yielded and failed,
\* with a running camera
C17_Witness ==
    /\ last.op = "test_frame" /\ ~last.ok
    /\ gen.yields > 0 /\ gen.fails > 0
    /\ OpenCv(Cur) \/ OpenPi(Cur)

\* C18 (as claimed): the status of GET / equals the status of GET /health in
\* every state.
C18_IndexAgreesWithHealth ==
    index(CAMERA_SOURCE, opencv_camera, libcamera_camera, heap).status
        = health_check(CAMERA_SOURCE, opencv_camera, libcamera_camera, heap).status

\* the previous call was a switch_camera to a valid kind whose open failed
AfterFailedSwitch == pre.last.op = "switch_camera" /\ IsKind(pre.last.arg) /\ ~pre.last.ok

\* C19: a switch_camera to a valid kind whose open fails leaves CAMERA_SOURCE
\* at the requested kind and answers success false with camera_source the
\* requested kind; the next test_frame calls only the requested kind's camera
\* object and the next /health reports the requested kind and judges it by
\* that kind's reference.
C19_FailedSwitchKeepsNewLabel ==
    /\ (last.op = "switch_camera" /\ IsKind(last.arg) /\ ~last.ok) =>
          /\ CAMERA_SOURCE = Lower(last.arg)
          /\ last.ret = [error |-> FALSE, success |-> FALSE,
                         camera_source |-> Lower(last.arg)]
    /\ (last.op = "test_frame" /\ AfterFailedSwitch) =>
          \A i \in DOMAIN last.log :
              heap[last.log[i].h].kind
                  = IF Lower(pre.last.arg) = LIBCAMERA THEN "pi" ELSE "cv"
    /\ (last.op = "health_check" /\ AfterFailedSwitch) =>
          /\ last.ret.camera_source = Lower(pre.last.arg)
          /\ last.ret.camera_working
                = IF Lower(pre.last.arg) = LIBCAMERA
                  THEN libcamera_camera # None ELSE OpenCv(Cur)

\* the failed switch asked for the other kind than the one in force
C19_Witness ==
    /\ last.op = "switch_camera" /\ IsKind(last.arg) /\ ~last.ok
    /\ Lower(pre.src) # Lower(last.arg)
    /\ CAMERA_SOURCE = Lower(last.arg)

\* ------------------------------------------ a stream across a switch
\* One /video_feed stream is running; switch_camera is called, and once more
\* if the first call fails; after a call that succeeds nothing but the
\* generator runs, every device read and every encode succeeds and the client
\* stays connected.
Settled == last.op = "switch_camera" /\ last.ok

LiveSwitch ==
    /\ ~Settled
    /\ pre.last.op = "load"
    /\ gen.pc # "none"
    /\ DoSwitchCamera(TRUE)

LiveGetFrame == DoGenGetFrame(IF Settled THEN {"ok"} ELSE ReadOutcomes)

LiveEncode == DoGenEncode(IF Settled THEN {"ok"} ELSE EncodeOutcomes)

LiveClose ==
    /\ ~Settled
    /\ GenClose

NextLive ==
    \/ StreamStartup
    \/ VideoFeed
    \/ LiveSwitch
    \/ LiveGetFrame
    \/ LiveEncode
    \/ GenSleep
    \/ GenResume
    \/ LiveClose

\* the generator is scheduled fairly and its consumer keeps asking
SpecLive ==
    /\ Init
    /\ [][NextLive]_vars
    /\ WF_vars(LiveGetFrame)
    /\ WF_vars(LiveEncode)
    /\ WF_vars(GenSleep)
    /\ WF_vars(GenResume)

\* the camera object the successful switch has opened
NewBackend == IF CAMERA_SOURCE = LIBCAMERA THEN libcamera_camera ELSE opencv_camera

\* the running generator, with a get_frame call still to make, comes to yield
\* a chunk whose frame was read from the new camera object
C20_EventuallyNewChunk ==
    (Settled /\ gen.calls < MaxCalls) ~> (gen.pc = "yield" /\ gen.frame.h = NewBackend)

\* C20 (as claimed): a generator running when a switch_camera call succeeds
\* eventually yields a chunk from the new backend, and after the switch
\* completed it yields no chunk whose frame came from the camera object the
\* switch closed.
C20_AsClaimed ==
    /\ C20_EventuallyNewChunk
    /\ [][(Settled /\ gen.pc = "encode" /\ gen'.pc = "yield") =>
              gen'.frame.h \notin Closed(last.log)]_vars

\* C20 (amended): a generator running when a switch_camera call succeeds
\* eventually yields a chunk from the new backend; every frame it retrieves
\* after the switch completed is read from the new camera object, and a yield
\* hands out the frame the generator holds, so the only chunk of the closed
\* backend that can follow the switch is the one whose frame was already
\* retrieved when the switch completed.
C20_NewBackendAfterSwitch ==
    /\ C20_EventuallyNewChunk
    /\ [][Settled =>
            /\ (gen.pc = "loop" /\ gen'.pc # "loop") =>
                   (gen'.pc = "encode" /\ gen'.frame.h = NewBackend)
            /\ (gen.pc = "encode" /\ gen'.pc = "yield") =>
                   (gen'.frame = gen.frame /\ gen'.chunk = Chunk(imencode(gen.frame)))]_vars

\* after a switch that closed the old camera the generator stands at a yield
\* with a chunk of the new one
C20_Witness ==
    /\ Settled
    /\ Closed(last.log) # {}
    /\ gen.pc = "yield"
    /\ gen.frame.h = NewBackend
    /\ gen.yields > 1

====
